---- MODULE Spec2Model ----
(***************************************************************************)
(* Model of scripts/creg2json.py: the line-by-line recognizer Parser.load  *)
(* that turns a C register header into Struct -> Register -> Field         *)
(* documents.  Lines are character strings; the regular expressions and    *)
(* string methods the script applies to them are computed on the           *)
(* characters, with Python's greedy, backtracking, leftmost semantics.     *)
(***************************************************************************)
EXTENDS Integers, Sequences, FiniteSets, TLC

(***************************************************************************)
(* Bounds of the model.                                                    *)
(***************************************************************************)
\* Longest sequence of arbitrary lines appended to a scenario prefix.
MaxTail == 2
\* Most register blocks in a generated well-formed header.
MaxRegs == 2
\* Most field lines in a register block of a generated well-formed header.
MaxFields == 2
\* Most calls of Parser.load on one Parser object (specification SpecTwice).
MaxLoads == 2

(***************************************************************************)
(* Characters and character classes.                                       *)
(***************************************************************************)
\* A class is [neg, set]: the characters in `set`, or (neg) those outside it.
Lit(c) == [neg |-> FALSE, set |-> {c}]

Digits == {"0", "1", "2", "3", "4", "5", "6", "7", "8", "9"}

HexDigits == Digits \cup {"a", "b", "c", "d", "e", "f", "A", "B", "C", "D", "E", "F"}

\* Python's whitespace, as far as the line alphabet has it.
Whitespace == {" ", "\t", "\n", "\r"}

ClsSpace == [neg |-> FALSE, set |-> Whitespace]

ClsNonSpace == [neg |-> TRUE, set |-> Whitespace]

ClsDigit == [neg |-> FALSE, set |-> Digits]

ClsHex == [neg |-> FALSE, set |-> HexDigits]

\* `.` matches anything but a newline.
ClsDot == [neg |-> TRUE, set |-> {"\n"}]

InClass(c, cls) == (c \in cls.set) # cls.neg

\* The i-th character of string s, as a one-character string.
CharAt(s, i) == SubSeq(s, i, i)

(***************************************************************************)
(* Regular expressions: a pattern is a sequence of items [cls, q, g], a    *)
(* character class, a quantifier ("1", "?", "*", "+", all greedy) and the  *)
(* number of the capture group the item lies in (0: none).                 *)
(***************************************************************************)
One(cls, g) == [cls |-> cls, q |-> "1", g |-> g]

Opt(cls, g) == [cls |-> cls, q |-> "?", g |-> g]

Star(cls, g) == [cls |-> cls, q |-> "*", g |-> g]

Plus(cls, g) == [cls |-> cls, q |-> "+", g |-> g]

\* The literal text `s`, one item per character, in group g.
Text(s, g) == [i \in 1..Len(s) |-> One(Lit(CharAt(s, i)), g)]

\* Length of the longest run of characters of class cls in s from position j.
RunLen(s, j, cls) ==
    LET runs == {n \in 0..(Len(s) + 1 - j) :
                    \A k \in 0..(n - 1) : InClass(CharAt(s, j + k), cls)}
    IN  CHOOSE n \in runs : \A k \in runs : k <= n

\* The numbers of characters item i of pat may take at position j of s.
Takes(pat, s, i, j) ==
    LET run == RunLen(s, j, pat[i].cls)
        hi  == IF pat[i].q \in {"1", "?"} THEN (IF run > 0 THEN 1 ELSE 0) ELSE run
        lo  == IF pat[i].q \in {"1", "+"} THEN 1 ELSE 0
    IN  lo..hi

RECURSIVE Matches(_, _, _, _)
\* Whether the items i.. of pat match s from position j.
Matches(pat, s, i, j) ==
    IF i > Len(pat) THEN TRUE
    ELSE \E n \in Takes(pat, s, i, j) : Matches(pat, s, i + 1, j + n)

RECURSIVE MatchFrom(_, _, _, _)
\* Items i.. of pat matched against s from position j, given that they match:
\* the number of characters each item took.  The quantifiers are greedy: an item
\* takes the most characters that still let the rest of the pattern match, which
\* is where giving characters back one at a time first succeeds.
MatchFrom(pat, s, i, j) ==
    IF i > Len(pat) THEN <<>>
    ELSE LET ok == {n \in Takes(pat, s, i, j) : Matches(pat, s, i + 1, j + n)}
             n  == CHOOSE m \in ok : \A k \in ok : k <= m
         IN  <<n>> \o MatchFrom(pat, s, i + 1, j + n)

\* re.match: the pattern anchored at the start of s.  <<>> is Python's None,
\* otherwise <<[start, lens]>>.
ReMatch(pat, s) ==
    IF Matches(pat, s, 1, 1)
    THEN <<[start |-> 1, lens |-> MatchFrom(pat, s, 1, 1)]>>
    ELSE <<>>

\* re.search: the leftmost match.
ReSearch(pat, s) ==
    LET starts == {k \in 1..(Len(s) + 1) : Matches(pat, s, 1, k)}
    IN  IF starts = {} THEN <<>>
        ELSE LET k == CHOOSE m \in starts : \A o \in starts : m <= o
             IN  <<[start |-> k, lens |-> MatchFrom(pat, s, 1, k)]>>

RECURSIVE SumLens(_, _, _)
\* Characters taken by the items 1..i that sel selects.
SumLens(lens, sel, i) ==
    IF i = 0 THEN 0
    ELSE (IF sel[i] THEN lens[i] ELSE 0) + SumLens(lens, sel, i - 1)

\* match.group(g) of a match m of pat on s.
Group(pat, s, m, g) ==
    LET idx    == {i \in 1..Len(pat) : pat[i].g = g}
        first  == CHOOSE i \in idx : \A k \in idx : i <= k
        before == [i \in 1..Len(pat) |-> i < first]
        inside == [i \in 1..Len(pat) |-> i \in idx]
        from   == m.start + SumLens(m.lens, before, Len(pat))
        len    == SumLens(m.lens, inside, Len(pat))
    IN  SubSeq(s, from, from + len - 1)

(***************************************************************************)
(* String methods.                                                         *)
(***************************************************************************)
\* str.startswith
StartsWith(s, p) == Len(s) >= Len(p) /\ SubSeq(s, 1, Len(p)) = p

RECURSIVE LStrip(_)
LStrip(s) ==
    IF Len(s) > 0 /\ CharAt(s, 1) \in Whitespace THEN LStrip(SubSeq(s, 2, Len(s)))
    ELSE s

RECURSIVE RStrip(_)
RStrip(s) ==
    IF Len(s) > 0 /\ CharAt(s, Len(s)) \in Whitespace THEN RStrip(SubSeq(s, 1, Len(s) - 1))
    ELSE s

\* str.strip
Strip(s) == RStrip(LStrip(s))

(***************************************************************************)
(* The patterns of the script.                                             *)
(***************************************************************************)
\* "^\s*/\*" (line 88)
CommentPat == <<Star(ClsSpace, 0)>> \o Text("/*", 0)

\* "\s+union \{" (line 105)
UnionPat == <<Plus(ClsSpace, 0)>> \o Text("union {", 0)

\* "\s+struct {" (line 114)
AnonStructPat == <<Plus(ClsSpace, 0)>> \o Text("struct {", 0)

\* A looser pattern, "}\s*(.*);", that also takes a bare "};".
RegNamePat_Loose ==
    Text("}", 0) \o <<Star(ClsSpace, 0), Star(ClsDot, 1), One(Lit(";"), 0)>>

\* "} (.+);" (line 143)
RegNamePat == Text("} ", 0) \o <<Plus(ClsDot, 1), One(Lit(";"), 0)>>

\* "\* (0x[0-9a-fA-F]+) :? (.*) \*" (line 153)
RegCommentPat ==
    Text("* ", 0) \o Text("0x", 1) \o <<Plus(ClsHex, 1)>> \o Text(" ", 0)
    \o <<Opt(Lit(":"), 0)>> \o Text(" ", 0) \o <<Star(ClsDot, 2)>> \o Text(" *", 0)

\* "(uint\d+_t)\s+(.+)\s*:\s*(\d+)\s*;\s*/\*(.+)\*" (line 162)
FieldPat ==
    Text("uint", 1) \o <<Plus(ClsDigit, 1)>> \o Text("_t", 1)
    \o <<Plus(ClsSpace, 0), Plus(ClsDot, 2), Star(ClsSpace, 0), One(Lit(":"), 0),
         Star(ClsSpace, 0), Plus(ClsDigit, 3), Star(ClsSpace, 0), One(Lit(";"), 0),
         Star(ClsSpace, 0)>>
    \o Text("/*", 0) \o <<Plus(ClsDot, 4), One(Lit("*"), 0)>>

\* "struct (\S+) {" (line 175)
StructNamePat == Text("struct ", 0) \o <<Plus(ClsNonSpace, 1)>> \o Text(" {", 0)

(***************************************************************************)
(* The model classes.  <<>> is Python's None, <<v>> the value v.           *)
(***************************************************************************)
\* Struct.__init__; registers holds the ids of the Register objects.
NewStruct(name, line) == [name |-> name, line |-> line, registers |-> <<>>]

\* Register.__init__
NewRegister(name, offset, line) ==
    [name |-> name, offset |-> offset, line |-> line, comment |-> <<>>, fields |-> <<>>]

\* Field.__init__ followed by the three assignments of _parse_reg_field.
NewField(name, type, bitsize, comment) ==
    [name |-> name, type |-> type, bitsize |-> bitsize, comment |-> comment]

(***************************************************************************)
(* The extraction methods.                                                 *)
(***************************************************************************)
\* Parser._read_reg_comment: (offset, comment), or None.
ReadRegComment(line) ==
    LET result == ReSearch(RegCommentPat, line)
    IN  IF result # <<>>
        THEN <<[offset  |-> Group(RegCommentPat, line, result[1], 1),
                comment |-> Group(RegCommentPat, line, result[1], 2)]>>
        ELSE <<>>

\* Parser._parse_reg_field: a populated Field, or None.
ParseRegField(line) ==
    LET s      == Strip(line)
        result == ReMatch(FieldPat, s)
    IN  IF result # <<>>
        THEN <<NewField(Strip(Group(FieldPat, s, result[1], 2)),
                        Strip(Group(FieldPat, s, result[1], 1)),
                        Strip(Group(FieldPat, s, result[1], 3)),
                        Strip(Group(FieldPat, s, result[1], 4)))>>
        ELSE <<>>

\* Parser._read_struct_name: the name; None stands for the AttributeError that
\* `.group(1)` raises on a line the pattern does not match.
ReadStructName(line) ==
    LET result == ReMatch(StructNamePat, line)
    IN  IF result # <<>> THEN <<Group(StructNamePat, line, result[1], 1)>> ELSE <<>>

(***************************************************************************)
(* The input: the lines the model draws headers from, each with its        *)
(* newline, as `for line in fd` yields them.                               *)
(***************************************************************************)
Lines ==
    { "struct foo_reg {\n",
      "struct bar_reg {\n",
      "struct foo_reg\n",
      "    /* 0x100 : control register */\n",
      "    /* 0x104 : status register */\n",
      "    /* reserved */\n",
      "    union {\n",
      "        struct {\n",
      "            uint32_t enable : 1; /*enable bit*/\n",
      "            uint32_t mode : 3; /*mode select*/\n",
      "        uint32_t WORD;\n",
      "        } ctrl;\n",
      "    } stat;\n",
      "    };\n",
      "};\n",
      "\n" }

\* The example header of the specification, section 8.
Example ==
    << "struct foo_reg {\n",
       "    /* 0x100 : control register */\n",
       "    union {\n",
       "        struct {\n",
       "            uint32_t enable : 1; /*enable bit*/\n",
       "            uint32_t mode : 3; /*mode select*/\n",
       "        } ctrl;\n",
       "    };\n",
       "};\n" >>

\* A header in the layout the script is written for (the register's name closes
\* the union), followed by the start of a second struct.
Spine ==
    << "struct foo_reg {\n",
       "    /* 0x100 : control register */\n",
       "    union {\n",
       "        struct {\n",
       "            uint32_t enable : 1; /*enable bit*/\n",
       "        } ctrl;\n",
       "    } stat;\n",
       "};\n",
       "struct bar_reg {\n",
       "    /* 0x104 : status register */\n",
       "    union {\n",
       "        struct {\n" >>

\* All sequences over S of length n.
SeqsOfLen(S, n) == [1..n -> S]

\* All sequences over S of length at most n.
SeqsUpTo(S, n) == UNION {SeqsOfLen(S, k) : k \in 0..n}

Prefixes(S) == {SubSeq(S, 1, k) : k \in 0..Len(S)}

\* Every prefix of the two headers above, continued by every sequence of at
\* most MaxTail lines: each state of the recognizer meets each line.
ScenarioInputs ==
    {p \o t : p \in Prefixes(Spine) \cup Prefixes(Example), t \in SeqsUpTo(Lines, MaxTail)}

RECURSIVE Concat(_)
\* The sequences of ss, one after the other.
Concat(ss) == IF ss = <<>> THEN <<>> ELSE Head(ss) \o Concat(Tail(ss))

\* The i-th field line of a generated block.
FieldLine(i) ==
    IF i % 2 = 1 THEN "            uint32_t enable : 1; /*enable bit*/\n"
    ELSE "            uint32_t mode : 3; /*mode select*/\n"

\* The register comment of the i-th generated block.
CommentLine(i) ==
    IF i % 2 = 1 THEN "    /* 0x100 : control register */\n"
    ELSE "    /* 0x104 : status register */\n"

\* The i-th register block with n field lines, up to the end of its fields.
BlockHead(i, n) ==
    <<CommentLine(i), "    union {\n", "        struct {\n">> \o [k \in 1..n |-> FieldLine(k)]

\* A register block as the specification writes it: the identifier closes the
\* anonymous struct and the union closes with a bare "};".
IdiomBlock(i, n) ==
    BlockHead(i, n)
    \o <<(IF i % 2 = 1 THEN "        } ctrl;\n" ELSE "        } stat;\n"), "    };\n">>

\* A register block as the script reads it: a close-brace line ends the fields
\* and the register's identifier closes the union.
LayoutBlock(i, n) ==
    BlockHead(i, n)
    \o <<"        } BF;\n", (IF i % 2 = 1 THEN "    } ctrl;\n" ELSE "    } stat;\n")>>

\* The numbers of field lines of the blocks of a generated header.
BlockShapes == SeqsUpTo(0..MaxFields, MaxRegs)

IdiomHeader(shape) ==
    <<"struct foo_reg {\n">>
    \o Concat([i \in 1..Len(shape) |-> IdiomBlock(i, shape[i])]) \o <<"};\n">>

LayoutHeader(shape) ==
    <<"struct foo_reg {\n">>
    \o Concat([i \in 1..Len(shape) |-> LayoutBlock(i, shape[i])]) \o <<"};\n">>

\* Well-formed headers in the layout of the specification.
IdiomInputs == {IdiomHeader(shape) : shape \in BlockShapes}

\* Well-formed headers in the layout of the script.
LayoutInputs == {LayoutHeader(shape) : shape \in BlockShapes}

Inputs == ScenarioInputs \cup IdiomInputs \cup LayoutInputs

\* Every line an input can hold.
AllLines == UNION {{fdx[k] : k \in 1..Len(fdx)} : fdx \in Inputs}

\* What load computes from a line, one entry per expression of the script,
\* worked out once for every line of the alphabet.
LineTable ==
    [line \in AllLines |->
        [startswith_struct  |-> StartsWith(line, "struct"),                \* line 75
         read_struct_name   |-> ReadStructName(line),                      \* line 81
         match_comment      |-> ReMatch(CommentPat, line) # <<>>,          \* line 88
         read_reg_comment   |-> ReadRegComment(line),                      \* line 90
         startswith_close   |-> StartsWith(Strip(line), "};"),             \* line 96
         match_union        |-> ReMatch(UnionPat, line) # <<>>,            \* line 105
         match_struct       |-> ReMatch(AnonStructPat, line) # <<>>,       \* line 114
         line_stripped      |-> Strip(line),                               \* line 120
         startswith_uint    |-> StartsWith(Strip(line), "uint"),           \* line 123
         parse_reg_field    |-> ParseRegField(line),                       \* line 124
         startswith_brace   |-> StartsWith(Strip(line), "}"),              \* line 133
         search_reg_name    |->                                            \* lines 143, 147
             LET result == ReSearch(RegNamePat, line)
             IN  IF result # <<>>
                 THEN <<Group(RegNamePat, line, result[1], 1)>>
                 ELSE <<>>]]

On(line) == LineTable[line]

(***************************************************************************)
(* The state.                                                              *)
(***************************************************************************)
VARIABLES
    fd,           \* the lines of the input, in file order
    pc,           \* "new": load not called; "loop": in the for loop of load;
                  \* "done": load returned; "exit": sys.exit(1) (line 132);
                  \* "raise": an exception left load
    line_number,  \* load's line counter
    state,        \* Parser.state
    struct,       \* Parser.struct: <<>> (None) or <<Struct>>
    register,     \* Parser.register: <<>> (None) or <<id of a Register>>
    heap,         \* the Register objects created so far, by id
    stdout,       \* the documents printed (line 100)
    stderr,       \* the lines printed to sys.stderr (lines 130, 136)
    log,          \* the records handed to the logger
    calls,        \* history: one record per call of load, what it started from
    visited       \* history: the state each line of the current call was read in

vars ==
    <<fd, pc, line_number, state, struct, register, heap, stdout, stderr, log, calls,
      visited>>

\* A logging call made while line n is processed.
LogRec(level, msg, n) == [level |-> level, msg |-> msg, line |-> n]

\* jsonpickle.encode(struct, unpicklable=False): the struct with its registers
\* and their fields as they are when it is encoded.
Encode(s, h) ==
    [name      |-> s.name,
     line      |-> s.line,
     registers |-> [i \in 1..Len(s.registers) |-> h[s.registers[i]]]]

\* Parser.__init__ (and nothing loaded yet).
Init ==
    /\ fd \in Inputs
    /\ pc = "new"
    /\ line_number = 0
    /\ state = "init"
    /\ struct = <<>>
    /\ register = <<>>
    /\ heap = <<>>
    /\ stdout = <<>>
    /\ stderr = <<>>
    /\ log = <<>>
    /\ calls = <<>>
    /\ visited = <<>>

\* A load whose line counter carries on from the call before.
LoadCall_NoReset ==
    /\ pc' = "loop"
    /\ line_number' = line_number
    /\ log' = Append(log, LogRec("DEBUG", "Reading file", 0))
    /\ calls' = Append(calls, [state |-> state, struct |-> struct, out |-> Len(stdout)])
    /\ visited' = <<>>
    /\ UNCHANGED <<fd, state, struct, register, heap, stdout, stderr>>

\* Entry of Parser.load (lines 67-69): the counter restarts, the parser's own
\* fields are left as they are.
LoadCall ==
    /\ pc' = "loop"
    /\ line_number' = 0
    /\ log' = Append(log, LogRec("DEBUG", "Reading file", 0))
    /\ calls' = Append(calls, [state |-> state, struct |-> struct, out |-> Len(stdout)])
    /\ visited' = <<>>
    /\ UNCHANGED <<fd, state, struct, register, heap, stdout, stderr>>

\* main: one call of load on a fresh Parser.
Load == pc = "new" /\ LoadCall

\* The for loop has a next line (line 71).
Reading == pc = "loop" /\ line_number < Len(fd)

\* The line the loop is about to process, and its number (line 72).
CurLine == fd[line_number + 1]

CurNo == line_number + 1

\* The loop takes the line (lines 71-72); `visited` notes the state it is read in.
NextLine == line_number' = CurNo /\ visited' = Append(visited, state)

\* state "init" (lines 74-86).
HandleInit ==
    /\ Reading /\ state = "init"
    /\ NextLine
    /\ IF On(CurLine).startswith_struct
       THEN LET logged == IF struct # <<>>
                          THEN Append(log, LogRec("ERROR", "Entered unexpected struct", CurNo))
                          ELSE log
                name   == On(CurLine).read_struct_name
            IN  IF name = <<>>
                THEN /\ pc' = "raise"
                     /\ log' = logged
                     /\ UNCHANGED <<state, struct>>
                ELSE /\ struct' = <<NewStruct(name[1], CurNo)>>
                     /\ log' = Append(logged, LogRec("DEBUG", "Found struct", CurNo))
                     /\ state' = "struct"
                     /\ pc' = pc
       ELSE UNCHANGED <<pc, state, struct, log>>
    /\ UNCHANGED <<fd, register, heap, stdout, stderr, calls>>

\* The append left out: the new register is current but not in the struct.
AddRegister_Skip(s, id) == s

\* A register put first instead of last.
AddRegister_Front(s, id) == [s EXCEPT !.registers = <<id>> \o @]

\* self.struct.registers.append(self.register) (line 94)
AddRegister(s, id) == [s EXCEPT !.registers = Append(@, id)]

\* A closing branch that prints the struct and forgets to drop it.
FinishStruct_NotCleared ==
    /\ log' = Append(log, LogRec("DEBUG", "Finished struct", CurNo))
    /\ stdout' = Append(stdout, Encode(struct[1], heap))
    /\ state' = "init"
    /\ UNCHANGED <<pc, struct, register, heap>>

\* A closing branch that prints the struct and leaves it open.
FinishStruct_KeepOpen ==
    /\ log' = Append(log, LogRec("DEBUG", "Finished struct", CurNo))
    /\ stdout' = Append(stdout, Encode(struct[1], heap))
    /\ UNCHANGED <<pc, state, struct, register, heap>>

\* The struct-closing branch of state "struct" (lines 97-103): the struct is
\* printed, then dropped.
FinishStruct ==
    /\ log' = Append(log, LogRec("DEBUG", "Finished struct", CurNo))
    /\ stdout' = Append(stdout, Encode(struct[1], heap))
    /\ struct' = <<>>
    /\ state' = "init"
    /\ UNCHANGED <<pc, register, heap>>

\* state "struct" (lines 87-103).
HandleStruct ==
    /\ Reading /\ state = "struct"
    /\ NextLine
    /\ IF On(CurLine).match_comment
       THEN LET found == Append(log, LogRec("DEBUG", "Found comment", CurNo))
                rc    == On(CurLine).read_reg_comment
            IN  IF rc = <<>>
                THEN /\ pc' = "raise"
                     /\ log' = found
                     /\ UNCHANGED <<state, struct, register, heap, stdout>>
                ELSE /\ heap' = Append(heap, NewRegister(rc[1].comment, rc[1].offset, CurNo))
                     /\ register' = <<Len(heap) + 1>>
                     /\ log' = Append(found, LogRec("DEBUG", "Register", CurNo))
                     /\ struct' = <<AddRegister(struct[1], Len(heap) + 1)>>
                     /\ state' = "post_reg_comment"
                     /\ UNCHANGED <<pc, stdout>>
       ELSE IF On(CurLine).startswith_close
            THEN FinishStruct
            ELSE UNCHANGED <<pc, state, struct, register, heap, stdout, log>>
    /\ UNCHANGED <<fd, stderr, calls>>

\* A handler that warns about the missing union and goes on with the block.
HandlePostRegComment_GoOn ==
    /\ Reading /\ state = "post_reg_comment"
    /\ NextLine
    /\ IF On(CurLine).match_union
       THEN /\ log' = Append(log, LogRec("DEBUG", "Found expected union", CurNo))
            /\ state' = "post_reg_union_def"
       ELSE /\ log' = Append(log, LogRec("WARNING", "Didn't get expected union", CurNo))
            /\ state' = "post_reg_union_def"
    /\ UNCHANGED <<fd, pc, struct, register, heap, stdout, stderr, calls>>

\* state "post_reg_comment" (lines 104-112).
HandlePostRegComment ==
    /\ Reading /\ state = "post_reg_comment"
    /\ NextLine
    /\ IF On(CurLine).match_union
       THEN /\ log' = Append(log, LogRec("DEBUG", "Found expected union", CurNo))
            /\ state' = "post_reg_union_def"
       ELSE /\ log' = Append(log, LogRec("WARNING", "Didn't get expected union", CurNo))
            /\ state' = "struct"
    /\ UNCHANGED <<fd, pc, struct, register, heap, stdout, stderr, calls>>

\* A handler that, like the one before it, gives the block up on a mismatch.
HandlePostRegUnionDef_Resync ==
    /\ Reading /\ state = "post_reg_union_def"
    /\ NextLine
    /\ IF On(CurLine).match_struct
       THEN /\ log' = Append(log, LogRec("DEBUG", "Found expected struct", CurNo))
            /\ state' = "post_reg_struct_def"
       ELSE /\ log' = Append(log, LogRec("WARNING", "Expected struct", CurNo))
            /\ state' = "struct"
    /\ UNCHANGED <<fd, pc, struct, register, heap, stdout, stderr, calls>>

\* state "post_reg_union_def" (lines 113-118).
HandlePostRegUnionDef ==
    /\ Reading /\ state = "post_reg_union_def"
    /\ NextLine
    /\ IF On(CurLine).match_struct
       THEN /\ log' = Append(log, LogRec("DEBUG", "Found expected struct", CurNo))
            /\ state' = "post_reg_struct_def"
       ELSE /\ log' = Append(log, LogRec("WARNING", "Expected struct", CurNo))
            /\ state' = state
    /\ UNCHANGED <<fd, pc, struct, register, heap, stdout, stderr, calls>>

\* self.register.fields.append(parsed_field) (line 127)
AddField(r, f) == [r EXCEPT !.fields = Append(@, f)]

\* The exit left out, as at line 140: the loop goes on.
SysExit_Continue == "loop"

\* sys.exit(1) (line 132): the process ends.
SysExit == "exit"

\* A handler that also looks for the register's name on the close-brace line
\* that ends the fields.
HandlePostRegStructDef_NameOnClose ==
    /\ Reading /\ state = "post_reg_struct_def"
    /\ NextLine
    /\ LET line_stripped == On(CurLine).line_stripped
       IN  IF On(CurLine).startswith_uint
           THEN LET parsed_field == On(CurLine).parse_reg_field
                IN  IF parsed_field # <<>>
                    THEN /\ heap' = [heap EXCEPT ![register[1]] = AddField(@, parsed_field[1])]
                         /\ UNCHANGED <<pc, state, stderr, log>>
                    ELSE /\ log' = Append(log, LogRec("WARNING", "Could not parse field", CurNo))
                         /\ stderr' = Append(stderr, line_stripped)
                         /\ pc' = SysExit
                         /\ UNCHANGED <<state, heap>>
           ELSE IF On(CurLine).startswith_brace
                THEN LET result == On(CurLine).search_reg_name
                     IN  IF result # <<>>
                         THEN /\ heap' = [heap EXCEPT ![register[1]] =
                                                [@ EXCEPT !.comment = <<heap[register[1]].name>>,
                                                          !.name = result[1]]]
                              /\ log' = Append(log, LogRec("DEBUG", "Using register name", CurNo))
                              /\ state' = "struct"
                              /\ UNCHANGED <<pc, stderr>>
                         ELSE /\ state' = "post_reg_struct"
                              /\ UNCHANGED <<pc, heap, stderr, log>>
                ELSE /\ stderr' = Append(stderr, line_stripped)
                     /\ log' = Append(log, LogRec("WARNING", "Unexpected post_reg_struct_def line", CurNo))
                     /\ UNCHANGED <<pc, state, heap>>
    /\ UNCHANGED <<fd, struct, register, stdout, calls>>

\* A handler with the exit of line 140 in force: an unexpected line ends the run.
HandlePostRegStructDef_ExitOnUnexpected ==
    /\ Reading /\ state = "post_reg_struct_def"
    /\ NextLine
    /\ LET line_stripped == On(CurLine).line_stripped
       IN  IF On(CurLine).startswith_uint
           THEN LET parsed_field == On(CurLine).parse_reg_field
                IN  IF parsed_field # <<>>
                    THEN /\ heap' = [heap EXCEPT ![register[1]] = AddField(@, parsed_field[1])]
                         /\ UNCHANGED <<pc, state, stderr, log>>
                    ELSE /\ log' = Append(log, LogRec("WARNING", "Could not parse field", CurNo))
                         /\ stderr' = Append(stderr, line_stripped)
                         /\ pc' = SysExit
                         /\ UNCHANGED <<state, heap>>
           ELSE IF On(CurLine).startswith_brace
                THEN /\ state' = "post_reg_struct"
                     /\ UNCHANGED <<pc, heap, stderr, log>>
                ELSE /\ stderr' = Append(stderr, line_stripped)
                     /\ log' = Append(log, LogRec("WARNING", "Unexpected post_reg_struct_def line", CurNo))
                     /\ pc' = SysExit
                     /\ UNCHANGED <<state, heap>>
    /\ UNCHANGED <<fd, struct, register, stdout, calls>>

\* state "post_reg_struct_def" (lines 119-140).
HandlePostRegStructDef ==
    /\ Reading /\ state = "post_reg_struct_def"
    /\ NextLine
    /\ LET line_stripped == On(CurLine).line_stripped
       IN  IF On(CurLine).startswith_uint
           THEN LET parsed_field == On(CurLine).parse_reg_field
                IN  IF parsed_field # <<>>
                    THEN /\ heap' = [heap EXCEPT ![register[1]] = AddField(@, parsed_field[1])]
                         /\ UNCHANGED <<pc, state, stderr, log>>
                    ELSE /\ log' = Append(log, LogRec("WARNING", "Could not parse field", CurNo))
                         /\ stderr' = Append(stderr, line_stripped)
                         /\ pc' = SysExit
                         /\ UNCHANGED <<state, heap>>
           ELSE IF On(CurLine).startswith_brace
                THEN /\ state' = "post_reg_struct"
                     /\ UNCHANGED <<pc, heap, stderr, log>>
                ELSE /\ stderr' = Append(stderr, line_stripped)
                     /\ log' = Append(log, LogRec("WARNING", "Unexpected post_reg_struct_def line", CurNo))
                     /\ UNCHANGED <<pc, state, heap>>
    /\ UNCHANGED <<fd, struct, register, stdout, calls>>

\* A rename that sets the name and loses the description.
Rename_NoComment(r, identifier) == [r EXCEPT !.name = identifier]

\* The two assignments in the other order: the comment receives the identifier.
Rename_NameFirst(r, identifier) == [r EXCEPT !.name = identifier, !.comment = <<identifier>>]

\* The rename of lines 146-147: the description moves to comment, then the
\* identifier becomes the name.
Rename(r, identifier) == [r EXCEPT !.comment = <<r.name>>, !.name = identifier]

\* A handler that stops waiting for the name when a line does not carry it.
HandlePostRegStruct_GiveUp ==
    /\ Reading /\ state = "post_reg_struct"
    /\ NextLine
    /\ LET result == On(CurLine).search_reg_name
       IN  IF result # <<>>
           THEN /\ heap' = [heap EXCEPT ![register[1]] = Rename(@, result[1])]
                /\ log' = Append(log, LogRec("DEBUG", "Using register name", CurNo))
                /\ state' = "struct"
           ELSE /\ state' = "struct"
                /\ UNCHANGED <<heap, log>>
    /\ UNCHANGED <<fd, pc, struct, register, stdout, stderr, calls>>

\* state "post_reg_struct" (lines 141-149).
HandlePostRegStruct ==
    /\ Reading /\ state = "post_reg_struct"
    /\ NextLine
    /\ LET result == On(CurLine).search_reg_name
       IN  IF result # <<>>
           THEN /\ heap' = [heap EXCEPT ![register[1]] = Rename(@, result[1])]
                /\ log' = Append(log, LogRec("DEBUG", "Using register name", CurNo))
                /\ state' = "struct"
           ELSE UNCHANGED <<heap, log, state>>
    /\ UNCHANGED <<fd, pc, struct, register, stdout, stderr, calls>>

\* A load that prints the struct still open when the lines run out.
EndOfInput_Flush ==
    /\ pc = "loop" /\ line_number = Len(fd)
    /\ pc' = "done"
    /\ stdout' = IF struct # <<>> THEN Append(stdout, Encode(struct[1], heap)) ELSE stdout
    /\ UNCHANGED <<fd, line_number, state, struct, register, heap, stderr, log, calls,
                   visited>>

\* The for loop runs out of lines and load returns (line 71).
EndOfInput ==
    /\ pc = "loop" /\ line_number = Len(fd)
    /\ pc' = "done"
    /\ UNCHANGED <<fd, line_number, state, struct, register, heap, stdout, stderr, log, calls,
                   visited>>

\* One iteration of the for loop: the if/elif chain on self.state (lines 74-149)
\* runs the handler of the current state.
ReadLine ==
    \/ HandleInit
    \/ HandleStruct
    \/ HandlePostRegComment
    \/ HandlePostRegUnionDef
    \/ HandlePostRegStructDef
    \/ HandlePostRegStruct

Next ==
    \/ Load
    \/ HandleInit
    \/ HandleStruct
    \/ HandlePostRegComment
    \/ HandlePostRegUnionDef
    \/ HandlePostRegStructDef
    \/ HandlePostRegStruct
    \/ EndOfInput

\* One run of the script: main creates a Parser and calls load once.
Spec == Init /\ [][Next]_vars

\* load called again, on the same Parser and the same lines, after it returned.
Reload == pc = "done" /\ Len(calls) < MaxLoads /\ LoadCall

NextTwice == Next \/ Reload

SpecTwice == Init /\ [][NextTwice]_vars

(***************************************************************************)
(* What the input says, read off the lines alone.                          *)
(***************************************************************************)
\* A register-introducing comment: a block comment with an offset.
IsRegComment(line) == On(line).match_comment /\ On(line).read_reg_comment # <<>>

\* A well-formed field line.
IsField(line) == On(line).startswith_uint /\ On(line).parse_reg_field # <<>>

\* The smallest element of a non-empty set of numbers.
Min(S) == CHOOSE m \in S : \A k \in S : m <= k

\* The registers of every emitted document, and of the open struct.
EmittedRegisters == UNION {{d.registers[i] : i \in 1..Len(d.registers)} :
                              d \in {stdout[k] : k \in 1..Len(stdout)}}

(***************************************************************************)
(* C1.  The example header of the specification.                           *)
(***************************************************************************)
EnableField ==
    [name |-> "enable", type |-> "uint32_t", bitsize |-> "1", comment |-> "enable bit"]

ModeField ==
    [name |-> "mode", type |-> "uint32_t", bitsize |-> "3", comment |-> "mode select"]

\* C1 as stated: the run over the example emits exactly one Struct foo_reg
\* with the one Register ctrl (0x100, 'control register') and its two fields.
C1_ExampleEmitsCtrl ==
    (fd = Example /\ pc = "done") =>
        /\ Len(stdout) = 1
        /\ stdout[1].name = "foo_reg"
        /\ Len(stdout[1].registers) = 1
        /\ stdout[1].registers[1].name = "ctrl"
        /\ stdout[1].registers[1].offset = "0x100"
        /\ stdout[1].registers[1].comment = <<"control register">>
        /\ stdout[1].registers[1].fields = <<EnableField, ModeField>>

\* C1 (amended): the run over the example emits no document; "} ctrl;" only
\* ends the field block, no later line carries an identifier, and the input
\* ends in state post_reg_struct with foo_reg open and its one register still
\* named by the description, without comment, holding the two fields.
C1_ExampleEmitsNothing ==
    (fd = Example /\ pc = "done") =>
        /\ stdout = <<>>
        /\ state = "post_reg_struct"
        /\ struct # <<>>
        /\ struct[1].name = "foo_reg"
        /\ Len(struct[1].registers) = 1
        /\ heap[struct[1].registers[1]].name = "control register"
        /\ heap[struct[1].registers[1]].offset = "0x100"
        /\ heap[struct[1].registers[1]].comment = <<>>
        /\ heap[struct[1].registers[1]].fields = <<EnableField, ModeField>>

C1_Witness == fd = Example /\ pc = "done" /\ visited[9] = "post_reg_struct"

(***************************************************************************)
(* C2.  Counts and order on well-formed headers.                           *)
(***************************************************************************)
\* The numbers of the register-comment lines of the input.
RegCommentLines == {k \in 1..Len(fd) : IsRegComment(fd[k])}

\* The number of the i-th register-comment line.
NthRegComment(i) ==
    CHOOSE k \in RegCommentLines : Cardinality({j \in RegCommentLines : j < k}) = i - 1

\* The line that ends the block of the i-th register comment: the next
\* register comment, or the end of the input.
BlockEnd(i) ==
    IF i < Cardinality(RegCommentLines) THEN NthRegComment(i + 1) ELSE Len(fd) + 1

\* The fields declared by the field lines among lines a..b, in order.
FieldsIn(a, b) ==
    LET fls == SelectSeq(SubSeq(fd, a, b), IsField)
    IN  [k \in 1..Len(fls) |-> On(fls[k]).parse_reg_field[1]]

\* Document d has one register per register-comment line of the input, in
\* source order, each with the offset of its comment and the fields of the
\* field lines of its block, in source order.
MirrorsInput(d) ==
    /\ Len(d.registers) = Cardinality(RegCommentLines)
    /\ \A i \in 1..Len(d.registers) :
          /\ d.registers[i].line = NthRegComment(i)
          /\ d.registers[i].offset = On(fd[NthRegComment(i)]).read_reg_comment[1].offset
          /\ d.registers[i].fields = FieldsIn(NthRegComment(i) + 1, BlockEnd(i) - 1)

\* C2 as stated: for a well-formed header in which "} <identifier>;" is
\* followed by the union's closing line "};", every emitted Struct has the
\* registers and fields of the input, in source order.
C2_IdiomMirrored ==
    (fd \in IdiomInputs /\ pc = "done") =>
        \A k \in 1..Len(stdout) : MirrorsInput(stdout[k])

\* C2 (amended): for a well-formed header in which each block ends its fields
\* with a close-brace line and then closes the union with a line holding
\* "} <identifier>;", exactly one Struct is emitted and it has the registers
\* and fields of the input, in source order.
C2_LayoutMirrored ==
    (fd \in LayoutInputs /\ pc = "done") =>
        /\ Len(stdout) = 1
        /\ MirrorsInput(stdout[1])

C2_Witness ==
    /\ fd \in LayoutInputs /\ pc = "done"
    /\ Len(stdout) = 1
    /\ Len(stdout[1].registers) = 2
    /\ Len(stdout[1].registers[1].fields) = 2
    /\ Len(stdout[1].registers[2].fields) = 1

(***************************************************************************)
(* C3.  Where a renamed register's comment and name come from.             *)
(***************************************************************************)
\* The number of the first line after line k that satisfies P, 0 if none.
FirstAfter(k, P(_)) ==
    LET later == {i \in (k + 1)..Len(fd) : P(fd[i])}
    IN  IF later = {} THEN 0 ELSE Min(later)

HasRegName(line) == On(line).search_reg_name # <<>>

IsAnonStruct(line) == On(line).match_struct

IsCloseBrace(line) == On(line).startswith_brace

\* For the register introduced at line c: the line that opens its field block
\* (the first anonymous-struct opener after the union opener at c + 1), the
\* close-brace line that ends the block, and the first line after that one
\* that holds "} <identifier>;".
FieldBlockOpen(c) == FirstAfter(c + 1, IsAnonStruct)

FieldBlockClose(c) == FirstAfter(FieldBlockOpen(c), IsCloseBrace)

NameLineAfterClose(c) == FirstAfter(FieldBlockClose(c), HasRegName)

\* The lines of the block of the register comment at line c: those after it,
\* up to the next register comment or the end of the input.
OwnBlock(c) ==
    (c + 1)..((IF FirstAfter(c, IsRegComment) = 0 THEN Len(fd) + 1
               ELSE FirstAfter(c, IsRegComment)) - 1)

\* The description text of the register comment at line c.
Description(c) == On(fd[c]).read_reg_comment[1].comment

\* C3 as stated: every emitted register that was renamed has the description
\* of its own comment as comment and, as name, the identifier of the
\* a "} <identifier>;" line of its own block, never of a later one.
C3_NameFromOwnBlock ==
    \A r \in EmittedRegisters :
        r.comment # <<>> =>
            /\ r.comment = <<Description(r.line)>>
            /\ \E k \in OwnBlock(r.line) :
                  /\ HasRegName(fd[k])
                  /\ r.name = On(fd[k]).search_reg_name[1]

\* C3 (amended): every emitted register that was renamed has the description
\* of its own comment as comment and, as name, the identifier of the first
\* line holding "} <identifier>;" that comes after the close-brace line that
\* ended its field block.
C3_NameFromLineAfterClose ==
    \A r \in EmittedRegisters :
        r.comment # <<>> =>
            /\ r.comment = <<Description(r.line)>>
            /\ On(fd[r.line + 1]).match_union
            /\ FieldBlockOpen(r.line) # 0
            /\ FieldBlockClose(r.line) # 0
            /\ NameLineAfterClose(r.line) # 0
            /\ r.name = On(fd[NameLineAfterClose(r.line)]).search_reg_name[1]

\* A register named by a line of a later register's block is emitted.
C3_Witness ==
    \E r \in EmittedRegisters :
        /\ r.comment # <<>>
        /\ NameLineAfterClose(r.line) \notin OwnBlock(r.line)

(***************************************************************************)
(* C4.  A struct-opening line read while a struct is open.                 *)
(***************************************************************************)
\* A line of the form "struct <identifier> {".
IsStructOpening(line) == On(line).startswith_struct /\ On(line).read_struct_name # <<>>

\* C4 as stated: a struct-opening line read while a struct is open is
\* reported as an error and its struct replaces the open one.
C4_SecondStructReplaces ==
    [][(ReadLine /\ struct # <<>> /\ IsStructOpening(CurLine)) =>
          /\ struct' = <<NewStruct(On(CurLine).read_struct_name[1], CurNo)>>
          /\ log' # log
          /\ log'[Len(log')].level = "ERROR"]_vars

(***************************************************************************)
(* C5.  What ends a run before the end of the input.                       *)
(***************************************************************************)
\* C5 as stated: a run ends early only on a malformed field line read in
\* state post_reg_struct_def.
C5_OnlyMalformedFieldAborts ==
    pc \in {"exit", "raise"} =>
        /\ visited[line_number] = "post_reg_struct_def"
        /\ On(fd[line_number]).startswith_uint
        /\ On(fd[line_number]).parse_reg_field = <<>>

(***************************************************************************)
(* C6.  The malformed field line.                                          *)
(***************************************************************************)
\* A line that starts with the type prefix and is no field.
IsMalformedField(line) == On(line).startswith_uint /\ On(line).parse_reg_field = <<>>

\* C6: a malformed field line read in state post_reg_struct_def is reported
\* and ends the run in that step, with the documents printed so far left as
\* they are and the open struct not printed; after the exit no step is taken.
C6_MalformedFieldEndsRun ==
    [][/\ pc # "exit"
       /\ (ReadLine /\ state = "post_reg_struct_def" /\ IsMalformedField(CurLine)) =>
             /\ pc' = "exit"
             /\ stdout' = stdout
             /\ struct' = struct
             /\ log' = Append(log, LogRec("WARNING", "Could not parse field", CurNo))
             /\ stderr' = Append(stderr, On(CurLine).line_stripped)]_vars

\* The run has ended on a malformed field with a document already printed
\* and lines left unread.
C6_Witness ==
    /\ pc = "exit"
    /\ IsMalformedField(fd[line_number])
    /\ Len(stdout) >= 1
    /\ line_number < Len(fd)

(***************************************************************************)
(* C7.  A struct still open at the end of the input.                       *)
(***************************************************************************)
\* The lines read in state "struct" that close the struct.
ClosingLinesRead ==
    {k \in 1..Len(visited) : visited[k] = "struct" /\ On(fd[k]).startswith_close}

\* C7: when load returns, one document has been printed per closing line read
\* in state "struct" and none for the struct still open; the step in which the
\* lines run out prints nothing and reports nothing.
C7_UnterminatedDropped ==
    /\ [](pc = "done" =>
            /\ Len(stdout) = Cardinality(ClosingLinesRead)
            /\ state # "init" =>
                  /\ struct # <<>>
                  /\ \A k \in 1..Len(stdout) : stdout[k].line # struct[1].line)
    /\ [][(pc = "loop" /\ pc' = "done") =>
             (stdout' = stdout /\ log' = log /\ stderr' = stderr)]_vars

\* The input ended with a struct open after an earlier struct was printed.
C7_Witness == pc = "done" /\ state # "init" /\ struct # <<>> /\ Len(stdout) >= 1

(***************************************************************************)
(* C8.  load called twice over the same lines.                             *)
(***************************************************************************)
\* The documents printed by the k-th call of load.
RunOutput(k) ==
    SubSeq(stdout, calls[k].out + 1,
           IF k < Len(calls) THEN calls[k + 1].out ELSE Len(stdout))

\* C8 as stated: a second call of load over the same lines prints the same
\* documents as the first.
C8_TwiceSame ==
    (pc = "done" /\ Len(calls) >= 2) => RunOutput(Len(calls)) = RunOutput(1)

\* C8 (amended): a later call of load that starts in state "init" (the call
\* before it ended with no struct open) prints the same documents as the first.
C8_SameFromSeeking ==
    \A k \in 2..Len(calls) :
        (calls[k].state = "init" /\ (k < Len(calls) \/ pc # "loop")) =>
            RunOutput(k) = RunOutput(1)

\* A second call that started in state "init" has returned, and printed.
C8_Witness ==
    /\ pc = "done" /\ Len(calls) = 2
    /\ calls[2].state = "init"
    /\ RunOutput(2) # <<>>

(***************************************************************************)
(* C9.  When a struct is printed.                                          *)
(***************************************************************************)
\* C9: the step that reads a closing line in state "struct" appends the open
\* struct to the output, drops it and returns to state "init"; no other step
\* changes the output; no struct is printed twice, and the documents stand in
\* the order in which their structs closed.
C9_EmittedOnClose ==
    /\ [][/\ (ReadLine /\ state = "struct" /\ On(CurLine).startswith_close) =>
                /\ stdout' = Append(stdout, Encode(struct[1], heap))
                /\ struct' = <<>>
                /\ state' = "init"
          /\ stdout' # stdout =>
                /\ ReadLine /\ state = "struct" /\ On(CurLine).startswith_close
                /\ Len(stdout') = Len(stdout) + 1
                /\ SubSeq(stdout', 1, Len(stdout)) = stdout]_vars
    /\ [](\A i, j \in 1..Len(stdout) : i < j => stdout[i].line < stdout[j].line)

\* A document is on the output while lines are still to be read.
C9_Witness ==
    /\ pc = "loop" /\ line_number < Len(fd)
    /\ Len(stdout) >= 1
    /\ visited[line_number] = "struct"
    /\ state = "init" /\ struct = <<>>

(***************************************************************************)
(* C10.  A register comment not followed by a union opener.                *)
(***************************************************************************)
\* The register introduced at line c was abandoned: the line after its comment
\* has been read and is no union opener.
Abandoned(c) == c + 1 <= line_number /\ ~On(fd[c + 1]).match_union

\* Register r is as its comment created it.
AsCreated(r) == r.fields = <<>> /\ r.comment = <<>> /\ r.name = Description(r.line)

\* C10: in state post_reg_comment a line that is no union opener is answered
\* by a warning and the return to state "struct", the struct and its registers
\* untouched; an abandoned register stays as its comment created it, in the
\* register sequence of its struct while that is open and in the document
\* printed for it once it is closed.
C10_AbandonedRegister ==
    /\ [][(ReadLine /\ state = "post_reg_comment" /\ ~On(CurLine).match_union) =>
             /\ state' = "struct"
             /\ log' = Append(log, LogRec("WARNING", "Didn't get expected union", CurNo))
             /\ UNCHANGED <<struct, register, heap, stdout>>]_vars
    /\ [](\A id \in 1..Len(heap) :
             Abandoned(heap[id].line) =>
                /\ AsCreated(heap[id])
                /\ IF struct # <<>> /\ struct[1].line < heap[id].line
                   THEN \E i \in 1..Len(struct[1].registers) : struct[1].registers[i] = id
                   ELSE heap[id] \in EmittedRegisters)
    /\ [](\A r \in EmittedRegisters : Abandoned(r.line) => AsCreated(r))

\* The document of a closed struct holds an abandoned register.
C10_Witness == \E r \in EmittedRegisters : Abandoned(r.line) /\ AsCreated(r)

(***************************************************************************)
(* C11.  A line that is no anonymous-struct opener after the union opener. *)
(***************************************************************************)
\* The open struct has not been printed.
OpenStructNotEmitted ==
    struct # <<>> /\ \A k \in 1..Len(stdout) : stdout[k].line # struct[1].line

\* C11: in state post_reg_union_def every line that is no anonymous-struct
\* opener (a close-brace line and a struct-closing line included) is answered
\* by a warning and leaves the state, the open struct, the current register and
\* the output as they are; a run that is still in this state when it is over
\* ended because the lines ran out, not by an abort, and the open struct has
\* not been printed.
C11_MismatchStaysAfterUnion ==
    /\ [][(ReadLine /\ state = "post_reg_union_def" /\ ~On(CurLine).match_struct) =>
             /\ log' = Append(log, LogRec("WARNING", "Expected struct", CurNo))
             /\ UNCHANGED <<pc, state, struct, register, heap, stdout>>]_vars
    /\ [](state = "post_reg_union_def" =>
             /\ pc \in {"loop", "done"}
             /\ OpenStructNotEmitted)

\* The input ended in state post_reg_union_def after a struct-closing line and
\* a close-brace line were read there.
C11_Witness ==
    /\ pc = "done" /\ state = "post_reg_union_def"
    /\ \E k \in 1..Len(fd) :
          visited[k] = "post_reg_union_def" /\ On(fd[k]).startswith_close
    /\ \E k \in 1..Len(fd) :
          /\ visited[k] = "post_reg_union_def"
          /\ On(fd[k]).startswith_brace /\ ~On(fd[k]).startswith_close

(***************************************************************************)
(* C12.  Waiting for the register's name after the field block.            *)
(***************************************************************************)
\* C12: in state post_reg_struct a line without "} <identifier>;" changes
\* nothing: the state, the open struct, the current register, the registers'
\* contents, the output and the log stay as they are, also when the line is a
\* struct-closing line; the first line that holds "} <identifier>;" renames
\* the register that has been current since the field block ended, whichever
\* block the line belongs to, and returns to state "struct".
C12_StallUntilName ==
    [][(ReadLine /\ state = "post_reg_struct") =>
          IF On(CurLine).search_reg_name = <<>>
          THEN UNCHANGED <<pc, state, struct, register, heap, stdout, stderr, log>>
          ELSE /\ state' = "struct"
               /\ UNCHANGED <<pc, struct, register, stdout>>
               /\ register # <<>>
               /\ heap'[register[1]].name = On(CurLine).search_reg_name[1]
               /\ heap'[register[1]].comment = <<heap[register[1]].name>>
               /\ heap'[register[1]].fields = heap[register[1]].fields
               /\ \A id \in 1..Len(heap) : id # register[1] => heap'[id] = heap[id]
               /\ Len(heap') = Len(heap)]_vars

\* A register waited for its name across a struct-closing line and the
\* comment of the next register, and was renamed by a line of that next
\* register's block; nothing was printed for the struct-closing line.
C12_Witness ==
    /\ state = "struct" /\ line_number >= 1
    /\ visited[line_number] = "post_reg_struct"
    /\ register # <<>>
    /\ heap[register[1]].name = On(fd[line_number]).search_reg_name[1]
    /\ stdout = <<>>
    /\ \E k \in 1..line_number : \E c \in (k + 1)..line_number :
          /\ visited[k] = "post_reg_struct" /\ On(fd[k]).startswith_close
          /\ visited[c] = "post_reg_struct" /\ IsRegComment(fd[c])
          /\ heap[register[1]].line < c

(***************************************************************************)
(* C13.  The other lines of a struct body.                                 *)
(***************************************************************************)
\* The warnings and errors among the records of a log.
Diagnostics(l) == SelectSeq(l, LAMBDA rec : rec.level \in {"WARNING", "ERROR"})

\* C13 as stated: in state "struct" a line that is neither a register comment
\* nor a struct-closing line is ignored: the run goes on in state "struct",
\* the open struct and the registers are unchanged, nothing is printed and no
\* warning or error is reported; a block comment without offset and a
\* struct-opening line are such lines.
C13_OtherLinesIgnored ==
    [][(ReadLine /\ state = "struct"
          /\ ~IsRegComment(CurLine) /\ ~On(CurLine).startswith_close) =>
             /\ UNCHANGED <<pc, state, struct, register, heap, stdout, stderr>>
             /\ Diagnostics(log') = Diagnostics(log)]_vars

(***************************************************************************)
(* C14.  What opens a struct.                                              *)
(***************************************************************************)
\* C14 as stated: in state "init" a line of the form "struct <identifier> {"
\* opens a struct of that name, at the line's number, without registers, and
\* moves to state "struct"; every other line is ignored: the run goes on in
\* state "init" with no struct open; neither prints anything.
C14_OnlyStructOpeningOpens ==
    [][(ReadLine /\ state = "init") =>
          /\ UNCHANGED <<pc, stdout, stderr, register, heap>>
          /\ IF IsStructOpening(CurLine)
             THEN /\ struct' = <<NewStruct(On(CurLine).read_struct_name[1], CurNo)>>
                  /\ struct'[1].registers = <<>>
                  /\ state' = "struct"
             ELSE /\ state' = "init"
                  /\ struct' = <<>>
                  /\ Diagnostics(log') = Diagnostics(log)]_vars

(***************************************************************************)
(* C15.  An unexpected line inside a field block.                          *)
(***************************************************************************)
\* A line that, stripped, starts neither with the type prefix nor with a
\* close brace.
IsUnexpectedInBlock(line) == ~On(line).startswith_uint /\ ~On(line).startswith_brace

\* C15: in state post_reg_struct_def an unexpected line is answered by a
\* warning and leaves the state, the open struct, the current register and
\* every register's fields as they are, and the run goes on; a well-formed
\* field line read in that state, before or after such a line, is appended to
\* the fields of the current register, which stays the same register.
C15_UnexpectedLineSkipped ==
    [][/\ (ReadLine /\ state = "post_reg_struct_def" /\ IsUnexpectedInBlock(CurLine)) =>
             /\ log' = Append(log, LogRec("WARNING", "Unexpected post_reg_struct_def line",
                                          CurNo))
             /\ UNCHANGED <<pc, state, struct, register, heap, stdout>>
       /\ (ReadLine /\ state = "post_reg_struct_def" /\ IsField(CurLine)) =>
             /\ UNCHANGED <<pc, state, struct, register, stdout, log>>
             /\ heap' = [heap EXCEPT ![register[1]].fields =
                                        Append(@, On(CurLine).parse_reg_field[1])]]_vars

\* A field line read after an unexpected line of the same block has been
\* appended to the register that already held the field read before it.
C15_Witness ==
    /\ pc = "loop" /\ state = "post_reg_struct_def" /\ line_number >= 3
    /\ visited[line_number] = "post_reg_struct_def" /\ IsField(fd[line_number])
    /\ visited[line_number - 1] = "post_reg_struct_def"
    /\ IsUnexpectedInBlock(fd[line_number - 1])
    /\ visited[line_number - 2] = "post_reg_struct_def" /\ IsField(fd[line_number - 2])
    /\ heap[register[1]].fields =
          <<On(fd[line_number - 2]).parse_reg_field[1], On(fd[line_number]).parse_reg_field[1]>>

(***************************************************************************)
(* C16.  State "init" and the open struct.                                 *)
(***************************************************************************)
\* C16: throughout one run of load on a fresh Parser the state is "init"
\* exactly when no struct is open; a struct-opening line read while a struct
\* is open leaves that struct as it is, and the error "Entered unexpected
\* struct" is never logged.
C16_InitIffNoStruct ==
    /\ []((state = "init") <=> (struct = <<>>))
    /\ [](\A i \in 1..Len(log) : log[i].msg # "Entered unexpected struct")
    /\ [][(ReadLine /\ struct # <<>> /\ IsStructOpening(CurLine)) =>
             (struct' = struct /\ stdout' = stdout)]_vars

\* A struct-opening line has been read while a struct was open, after an
\* earlier struct was opened and closed.
C16_Witness ==
    /\ pc = "loop" /\ line_number >= 1
    /\ visited[line_number] = "struct" /\ IsStructOpening(fd[line_number])
    /\ struct # <<>> /\ struct[1].line < line_number
    /\ Len(stdout) >= 1

(***************************************************************************)
(* C17.  The two forms of a printed register.                              *)
(***************************************************************************)
\* C17: every register of a printed document is either abandoned (the line
\* after its comment was no union opener; it has no fields, no comment and
\* its description as name) or completed (the rename gave it its description
\* as comment); none has fields while its comment is absent.
C17_AbandonedOrCompleted ==
    \A r \in EmittedRegisters :
        IF r.comment = <<>>
        THEN r.fields = <<>> /\ r.name = Description(r.line) /\ Abandoned(r.line)
        ELSE r.comment = <<Description(r.line)>>

\* A register that held a field and no comment while a struct-closing line
\* went by in state post_reg_struct has been printed, completed.
C17_Witness ==
    \E r \in EmittedRegisters :
        /\ r.fields # <<>> /\ r.comment # <<>>
        /\ \E k \in (r.line + 1)..line_number :
              visited[k] = "post_reg_struct" /\ On(fd[k]).startswith_close

(***************************************************************************)
(* C18.  The current register and the open struct.                         *)
(***************************************************************************)
\* The states in which a register's block is being read.
InnerStates ==
    {"post_reg_comment", "post_reg_union_def", "post_reg_struct_def", "post_reg_struct"}

\* The last register of the open struct.
LastRegister == struct[1].registers[Len(struct[1].registers)]

\* C18: in the four states in which a register's block is read, a struct is
\* open and the current register is the last of its registers; a step changes
\* a register only in those states and only that last register of the open
\* struct, so the registers of a printed document stay as they were printed,
\* although the current register is kept when a struct closes.
C18_CurrentIsLastOfOpen ==
    /\ [](state \in InnerStates =>
             /\ struct # <<>> /\ register # <<>>
             /\ Len(struct[1].registers) >= 1
             /\ register[1] = LastRegister)
    /\ [][/\ \A id \in 1..Len(heap) :
                heap'[id] # heap[id] =>
                   /\ state \in {"post_reg_struct_def", "post_reg_struct"}
                   /\ id = register[1] /\ id = LastRegister
          /\ (state = "struct" /\ state' = "init") => register' = register]_vars
    /\ [](\A r \in EmittedRegisters : \E id \in 1..Len(heap) : heap[id] = r)

\* After a struct with a register was printed, a register of the next struct
\* has received a field; the printed register is another object.
C18_Witness ==
    /\ Len(stdout) >= 1 /\ stdout[1].registers # <<>>
    /\ state = "post_reg_struct_def"
    /\ heap[register[1]].fields # <<>>
    /\ register[1] = LastRegister
    /\ heap[register[1]].line > struct[1].line
    /\ \E id \in 1..Len(heap) : id # register[1] /\ heap[id] = stdout[1].registers[1]

(***************************************************************************)
(* C19.  One handler per line.                                             *)
(***************************************************************************)
\* The states one handler can leave the recognizer in, by the state it runs in.
OneStep ==
    [s \in {"init", "struct"} \cup InnerStates |->
        CASE s = "init"                -> {"init", "struct"}
          [] s = "struct"              -> {"struct", "post_reg_comment", "init"}
          [] s = "post_reg_comment"    -> {"post_reg_union_def", "struct"}
          [] s = "post_reg_union_def"  -> {"post_reg_union_def", "post_reg_struct_def"}
          [] s = "post_reg_struct_def" -> {"post_reg_struct_def", "post_reg_struct"}
          [] s = "post_reg_struct"     -> {"post_reg_struct", "struct"}]

\* C19: a step of the loop takes exactly one line and runs one handler, that
\* of the state the line is read in: the state after the step is one that this
\* handler sets, and the line is not looked at again in the new state.  A
\* struct-closing line or a register comment read in state post_reg_comment
\* only brings the recognizer back to state "struct": nothing is printed, the
\* struct stays open, no register is created.  The close-brace line that ends
\* the fields only moves to state post_reg_struct: no register is renamed,
\* whatever identifier the line carries.
C19_OneHandlerPerLine ==
    /\ [][ReadLine =>
             /\ line_number' = line_number + 1
             /\ state' \in OneStep[state]
             /\ (state = "post_reg_comment"
                   /\ (On(CurLine).startswith_close \/ IsRegComment(CurLine))) =>
                      /\ state' = "struct"
                      /\ UNCHANGED <<pc, struct, register, heap, stdout>>
             /\ (state = "post_reg_struct_def"
                   /\ ~On(CurLine).startswith_uint /\ On(CurLine).startswith_brace) =>
                      /\ state' = "post_reg_struct"
                      /\ UNCHANGED <<pc, struct, register, heap, stdout, log>>]_vars
    /\ [](Len(visited) = line_number)

\* A close-brace line with an identifier ended a field block and left the
\* register unnamed, and later a struct-closing line read in state
\* post_reg_comment left the struct open and unprinted.
C19_Witness ==
    /\ state = "struct" /\ struct # <<>> /\ stdout = <<>> /\ line_number >= 2
    /\ visited[line_number] = "post_reg_comment" /\ On(fd[line_number]).startswith_close
    /\ \E k \in 1..(line_number - 1) :
          /\ visited[k] = "post_reg_struct_def" /\ HasRegName(fd[k])
          /\ visited[k + 1] = "post_reg_struct"
          /\ heap[struct[1].registers[1]].name # On(fd[k]).search_reg_name[1]

====
